---- MODULE Spec2Model ----
(***************************************************************************)
(* A model of app/app.py, the CORD-19 data explorer: one Streamlit script  *)
(* that loads a CSV of paper metadata (load_data), cleans it, and draws a  *)
(* fixed sequence of views over the rows selected by a year-range slider.  *)
(* Streamlit runs the script top to bottom, and runs it again from the top *)
(* each time the user moves the slider; load_data is cached across runs.   *)
(*                                                                         *)
(* Text cells are sequences of one-character strings, so that lower(),     *)
(* split(), " ".join() and the date parse are modelled by what they do.    *)
(***************************************************************************)
EXTENDS Integers, Sequences, FiniteSets

VARIABLES
    file,          \* the CSV at file_path: [exists, columns, lines]
    cache,         \* st.cache_data entry of load_data: <<>> or <<df>>
    df,            \* the module-level df (line 32): [columns, rows]
    widget,        \* the slider's session value set by the user: <<>> or <<lo, hi>>
    slider_bounds, \* <<min, max>> the rendered slider offers: <<>> before it is drawn
    year_range,    \* line 57: <<lo, hi>>, or <<>> before the slider returned
    df_filtered,   \* line 64: [columns, rows]
    all_words,     \* line 122
    common_words,  \* line 123
    ui,            \* what the run has written to the page so far
    pc,            \* the script's position
    error          \* the exception that ended the run: [type, line], or NoError

vars == <<file, cache, df, widget, slider_bounds, year_range, df_filtered,
          all_words, common_words, ui, pc, error>>

----------------------------------------------------------------------------
(* Bounds of the model                                                     *)

\* The longest input file, in data lines.
MaxLines == 3

\* The number of distinct words in the one long title of the input set:
\* more than most_common's 20.
LongTitleWords == 22

\* The largest n the ranking is asked for besides the script's 20.
MaxN == 3

----------------------------------------------------------------------------
(* Values                                                                  *)

\* pandas' missing value in a text column.
NaN == <<"NaN">>

\* pandas' missing timestamp.
NaT == [year |-> 0, month |-> 0, day |-> 0]

\* pandas' missing value in the numeric year column (float NaN).
NaN_year == 0

NoError == [type |-> "none", line |-> 0]

NoTable == [columns |-> {}, rows |-> <<>>]

Min(a, b) == IF a <= b THEN a ELSE b

Max(a, b) == IF a >= b THEN a ELSE b

RECURSIVE Sum(_)
Sum(s) == IF s = <<>> THEN 0 ELSE Head(s) + Sum(Tail(s))

----------------------------------------------------------------------------
(* str methods                                                             *)

IsSpace(c) == c = " "

\* str.lower on one character.
lower_char(c) ==
    CASE c = "A" -> "a"
      [] c = "B" -> "b"
      [] OTHER -> c

\* str.lower
lower(s) == [i \in 1..Len(s) |-> lower_char(s[i])]

\* str.split() with no separator: the text is scanned left to right, each
\* word starting at a character that is not whitespace and follows whitespace
\* (or starts the text) and running up to the next whitespace (or the end).
\* Leading, trailing and repeated whitespace gives no empty word.
split(s) ==
    LET starts == SelectSeq([i \in 1..Len(s) |-> i],
                            LAMBDA i : ~IsSpace(s[i]) /\ (i = 1 \/ IsSpace(s[i - 1])))
        stop(i) == CHOOSE j \in i..Len(s) :
                      /\ \A k \in i..j : ~IsSpace(s[k])
                      /\ (j = Len(s) \/ IsSpace(s[j + 1]))
    IN [k \in 1..Len(starts) |-> SubSeq(s, starts[k], stop(starts[k]))]

\* " ".join(strs)
RECURSIVE join(_)
join(strs) ==
    IF strs = <<>> THEN <<>>
    ELSE IF Len(strs) = 1 THEN Head(strs)
    ELSE Head(strs) \o <<" ">> \o join(Tail(strs))

----------------------------------------------------------------------------
(* pandas: read_csv, to_datetime, dropna                                   *)

Digits == <<"0", "1", "2", "3", "4", "5", "6", "7", "8", "9">>

IsDigit(c) == \E i \in 1..10 : Digits[i] = c

DigitVal(c) == (CHOOSE i \in 1..10 : Digits[i] = c) - 1

\* The number a run of digits writes.
RECURSIVE Number(_)
Number(s) ==
    IF s = <<>> THEN 0 ELSE 10 * Number(SubSeq(s, 1, Len(s) - 1)) + DigitVal(s[Len(s)])

IsLeap(y) == (y % 4 = 0 /\ y % 100 # 0) \/ y % 400 = 0

DaysIn(y, m) ==
    CASE m \in {4, 6, 9, 11} -> 30
      [] m = 2 -> IF IsLeap(y) THEN 29 ELSE 28
      [] OTHER -> 31

\* pd.to_datetime(cell, errors='coerce') on one cell, for the ISO form
\* YYYY-MM-DD the input set writes dates in: a missing cell and a text that
\* is no calendar date both give NaT.
to_datetime(cell) ==
    IF cell = NaN THEN NaT
    ELSE IF /\ Len(cell) = 10
            /\ cell[5] = "-" /\ cell[8] = "-"
            /\ \A i \in {1, 2, 3, 4, 6, 7, 9, 10} : IsDigit(cell[i])
         THEN LET y == Number(SubSeq(cell, 1, 4))
                  m == Number(SubSeq(cell, 6, 7))
                  d == Number(SubSeq(cell, 9, 10))
              IN IF y >= 1 /\ m \in 1..12 /\ d \in 1..DaysIn(y, m)
                 THEN [year |-> y, month |-> m, day |-> d]
                 ELSE NaT
         ELSE NaT

\* Series.dt.year on one cell.
dt_year(t) == IF t = NaT THEN NaN_year ELSE t.year

\* read_csv's reading of one cell: an empty field is a missing value.
read_cell(text) == IF text = <<>> THEN NaN ELSE text

\* The columns the script reads; title and publish_time are in every header.
OptionalColumns == {"authors", "journal", "abstract", "source_x"}

\* pd.read_csv(file_path, engine='python', on_bad_lines='skip'): a line with
\* more fields than the header is skipped, every other line becomes a row.
\* Each row keeps the number of the line it came from.
read_csv(f) ==
    LET good == SelectSeq([i \in 1..Len(f.lines) |-> [n |-> i, l |-> f.lines[i]]],
                          LAMBDA x : ~x.l.extra_fields)
    IN [columns |-> f.columns,
        rows |-> [i \in 1..Len(good) |->
                    [line |-> good[i].n,
                     title |-> read_cell(good[i].l.title),
                     publish_time |-> read_cell(good[i].l.publish_time),
                     abstract |-> read_cell(good[i].l.abstract)]]]

\* Series.fillna("") on one cell.
fillna(cell) == IF cell = NaN THEN <<>> ELSE cell

\* dropna with the subset cut to the title.
dropna_title_only(rows) == SelectSeq(rows, LAMBDA r : r.title # NaN)

\* df.dropna(subset=['title', 'publish_time']) on the rows.
dropna(rows) == SelectSeq(rows, LAMBDA r : r.title # NaN /\ r.publish_time # NaT)

\* load_data returning the cleaned rows sorted by year (a stable sort).
clean_sorted(raw) ==
    LET dated == [i \in 1..Len(raw.rows) |->
                    LET r == raw.rows[i]
                        t == to_datetime(r.publish_time)
                    IN [line |-> r.line,
                        title |-> r.title,
                        publish_time |-> t,
                        abstract |-> r.abstract,
                        year |-> dt_year(t),
                        abstract_word_count |-> Len(split(fillna(r.abstract)))]]
        kept == SelectSeq(dated, LAMBDA r : r.title # NaN /\ r.publish_time # NaT)
        rank(i) == Cardinality({j \in 1..Len(kept) :
                        \/ kept[j].year < kept[i].year
                        \/ (kept[j].year = kept[i].year /\ j <= i)})
    IN [columns |-> raw.columns \cup {"year", "abstract_word_count"},
        rows |-> [k \in 1..Len(kept) |->
                    kept[CHOOSE i \in 1..Len(kept) : rank(i) = k]]]

\* The body of load_data after read_csv (lines 20-26).
clean(raw) ==
    LET dated == [i \in 1..Len(raw.rows) |->
                    LET r == raw.rows[i]
                        t == to_datetime(r.publish_time)
                    IN [line |-> r.line,
                        title |-> r.title,
                        publish_time |-> t,
                        abstract |-> r.abstract,
                        year |-> dt_year(t),
                        abstract_word_count |-> Len(split(fillna(r.abstract)))]]
    IN [columns |-> raw.columns \cup {"year", "abstract_word_count"},
        rows |-> dropna(dated)]

\* Series.min() and Series.max() of the year column: missing values are
\* skipped, and an empty column gives NaN.
Years(t) == {t.rows[i].year : i \in 1..Len(t.rows)} \ {NaN_year}

year_min(t) ==
    IF Years(t) = {} THEN NaN_year ELSE CHOOSE y \in Years(t) : \A z \in Years(t) : y <= z

year_max(t) ==
    IF Years(t) = {} THEN NaN_year ELSE CHOOSE y \in Years(t) : \A z \in Years(t) : y >= z

----------------------------------------------------------------------------
(* The year filter and the word count                                      *)

\* The filter with the upper bound left out of the range.
filter_by_year_open(t, a, b) ==
    [columns |-> t.columns,
     rows |-> SelectSeq(t.rows,
                        LAMBDA r : r.year # NaN_year /\ r.year >= a /\ r.year < b)]

\* The filter with its mask one row late: a row is kept when the row before
\* it is in the range.
filter_by_year_shifted(t, a, b) ==
    LET keep == {i \in 2..Len(t.rows) :
                    /\ t.rows[i - 1].year # NaN_year
                    /\ t.rows[i - 1].year >= a
                    /\ t.rows[i - 1].year <= b}
        at == [i \in 1..Len(t.rows) |-> [n |-> i, r |-> t.rows[i]]]
        kept == SelectSeq(at, LAMBDA x : x.n \in keep)
    IN [columns |-> t.columns, rows |-> [k \in 1..Len(kept) |-> kept[k].r]]

\* df[(df['year'] >= a) & (df['year'] <= b)]: the rows the mask is true of,
\* in the table's order.  A comparison with NaN is false.
filter_by_year(t, a, b) ==
    [columns |-> t.columns,
     rows |-> SelectSeq(t.rows,
                        LAMBDA r : r.year # NaN_year /\ r.year >= a /\ r.year <= b)]

\* df_filtered['title'].dropna().tolist()
titles_of(rows) ==
    LET kept == SelectSeq(rows, LAMBDA r : r.title # NaN)
    IN [i \in 1..Len(kept) |-> kept[i].title]

\* " ".join(df_filtered['title'].dropna().tolist()).lower().split()
title_words(rows) == split(lower(join(titles_of(rows))))

\* A Counter that notes each distinct word once and never counts further.
Counter_presence(words) ==
    LET firsts == SelectSeq([i \in 1..Len(words) |-> i],
                            LAMBDA i : \A j \in 1..(i - 1) : words[j] # words[i])
    IN [k \in 1..Len(firsts) |-> [word |-> words[firsts[k]], count |-> 1]]

\* Counter(words): a dict, which keeps its keys in the order they were first
\* inserted.  One entry per distinct word, at the place of its first
\* occurrence, counting every occurrence.
Counter(words) ==
    LET firsts == SelectSeq([i \in 1..Len(words) |-> i],
                            LAMBDA i : \A j \in 1..(i - 1) : words[j] # words[i])
    IN [k \in 1..Len(firsts) |->
          LET w == words[firsts[k]]
          IN [word |-> w,
              count |-> Cardinality({j \in 1..Len(words) : words[j] = w})]]

\* A sort that puts an item in front of the items of equal count: equal
\* counts come out in the reverse of the order first encountered.
RECURSIVE sorted_by_count_unstable(_, _)
sorted_by_count_unstable(items, acc) ==
    IF items = <<>> THEN acc
    ELSE LET x == Head(items)
             k == Cardinality({i \in 1..Len(acc) : acc[i].count > x.count})
         IN sorted_by_count_unstable(Tail(items),
                SubSeq(acc, 1, k) \o <<x>> \o SubSeq(acc, k + 1, Len(acc)))

\* sorted(items, key=count, reverse=True): Python's sort is stable, and with
\* reverse=True it still keeps equal keys in their original order.  Each item
\* goes in behind every item already placed whose count is not smaller.
RECURSIVE sorted_by_count(_, _)
sorted_by_count(items, acc) ==
    IF items = <<>> THEN acc
    ELSE LET x == Head(items)
             k == Cardinality({i \in 1..Len(acc) : acc[i].count >= x.count})
         IN sorted_by_count(Tail(items),
                SubSeq(acc, 1, k) \o <<x>> \o SubSeq(acc, k + 1, Len(acc)))

\* Counter.most_common(n): the n largest by count, equal counts in the order
\* first encountered.
most_common(counter, n) ==
    LET s == sorted_by_count(counter, <<>>)
    IN SubSeq(s, 1, Min(n, Len(s)))

\* The n of most_common(20).
TopN == 20

\* The slider's default value (2020, 2021).
DefaultLo == 2020

DefaultHi == 2021

\* st.slider(label, min_value, max_value, value): Streamlit widens the
\* offered range so that it holds the default value.
slider_range(min_value, max_value, value) ==
    <<Min(value[1], min_value), Max(value[2], max_value)>>

----------------------------------------------------------------------------
(* The input files                                                         *)

\* The texts the input lines are written with: the titles "A b" and "b  a"
\* (two spaces), the dates 2020-02-29, 2021-01-01 and 2021-02-29 (no such
\* day), and the empty field.
TitleAb == <<"A", " ", "b">>

TitleBa == <<"b", " ", " ", "a">>

Date2020 == <<"2", "0", "2", "0", "-", "0", "2", "-", "2", "9">>

Date2021 == <<"2", "0", "2", "1", "-", "0", "1", "-", "0", "1">>

DateNoDay == <<"2", "0", "2", "1", "-", "0", "2", "-", "2", "9">>

\* The words of the long title: one letter each, all different, the first
\* of them a word of the short titles too.
Letters == <<"b", "c", "d", "e", "f", "g", "h", "i", "j", "k", "l", "m", "n",
             "o", "p", "q", "r", "s", "t", "u", "v", "w", "x", "y", "z">>

Word(k) == <<Letters[k]>>

LongTitle == join([k \in 1..LongTitleWords |-> Word(k)])

CsvLine(title, publish_time, abstract, extra_fields) ==
    [title |-> title, publish_time |-> publish_time, abstract |-> abstract,
     extra_fields |-> extra_fields]

\* The lines a file is made of: two good rows of different years, a row
\* with no title, a row whose date is no date, a row with no date, a row
\* with the long title, and a line with too many fields.
InputLines ==
    {CsvLine(TitleAb, Date2020, TitleAb, FALSE),
     CsvLine(TitleBa, Date2021, <<>>, FALSE),
     CsvLine(<<>>, Date2021, TitleBa, FALSE),
     CsvLine(TitleAb, DateNoDay, <<>>, FALSE),
     CsvLine(TitleBa, <<>>, TitleAb, FALSE),
     CsvLine(LongTitle, Date2021, <<>>, FALSE),
     CsvLine(TitleAb, Date2021, TitleAb, TRUE)}

RECURSIVE SeqsUpTo(_, _)
SeqsUpTo(S, n) ==
    IF n = 0 THEN {<<>>}
    ELSE LET shorter == SeqsUpTo(S, n - 1)
         IN shorter \cup {Append(s, x) : s \in {t \in shorter : Len(t) = n - 1}, x \in S}

Files ==
    {[exists |-> FALSE, columns |-> {}, lines |-> <<>>]}
    \cup {[exists |-> TRUE, columns |-> {"title", "publish_time"} \cup opt, lines |-> ls] :
            opt \in SUBSET OptionalColumns, ls \in SeqsUpTo(InputLines, MaxLines)}

----------------------------------------------------------------------------
(* The script                                                              *)

Init ==
    /\ file \in Files
    /\ cache = <<>>
    /\ df = NoTable
    /\ widget = <<>>
    /\ slider_bounds = <<>>
    /\ year_range = <<>>
    /\ df_filtered = NoTable
    /\ all_words = <<>>
    /\ common_words = <<>>
    /\ ui = <<>>
    /\ pc = "load"
    /\ error = NoError

\* An uncaught exception ends the run; Streamlit shows it on the page.
Raise(type, line) ==
    /\ error' = [type |-> type, line |-> line]
    /\ pc' = "error"

\* load_data(file_path) behind @st.cache_data, and df = load_data(file_path).
\* A call that raised is not cached.
Load ==
    /\ pc = "load"
    /\ IF cache # <<>>
       THEN /\ df' = cache[1]
            /\ pc' = "overview"
            /\ UNCHANGED <<cache, error>>
       ELSE IF ~file.exists
       THEN /\ Raise("FileNotFoundError", 13)
            /\ UNCHANGED <<cache, df>>
       ELSE IF "abstract" \notin file.columns
       THEN /\ Raise("KeyError", 23)
            /\ UNCHANGED <<cache, df>>
       ELSE /\ df' = clean(read_csv(file))
            /\ cache' = <<df'>>
            /\ pc' = "overview"
            /\ UNCHANGED error
    /\ UNCHANGED <<file, widget, slider_bounds, year_range, df_filtered,
                   all_words, common_words, ui>>

\* The title and the dataset overview (lines 37-52).
Overview ==
    /\ pc = "overview"
    /\ ui' = Append(ui, "overview")
    /\ pc' = "slider"
    /\ UNCHANGED <<file, cache, df, widget, slider_bounds, year_range, df_filtered,
                   all_words, common_words, error>>

\* year_range = st.slider(..., int(df['year'].min()), int(df['year'].max()),
\* (2020, 2021)).  int(NaN) raises ValueError.  The slider returns the value
\* the user set, and its default on the first run.
Slider ==
    /\ pc = "slider"
    /\ IF year_min(df) = NaN_year
       THEN /\ Raise("ValueError", 59)
            /\ UNCHANGED <<slider_bounds, year_range, ui>>
       ELSE /\ slider_bounds' =
                  slider_range(year_min(df), year_max(df), <<DefaultLo, DefaultHi>>)
            /\ year_range' = IF widget = <<>> THEN <<DefaultLo, DefaultHi>> ELSE widget
            /\ ui' = Append(ui, "slider")
            /\ pc' = "filter"
            /\ UNCHANGED error
    /\ UNCHANGED <<file, cache, df, widget, df_filtered, all_words, common_words>>

\* The filter narrowing the loaded table itself, and with it the cached one.
ApplyFilter_in_place ==
    /\ pc = "filter"
    /\ df_filtered' = filter_by_year(df, year_range[1], year_range[2])
    /\ df' = df_filtered'
    /\ cache' = <<df_filtered'>>
    /\ ui' = Append(ui, "showing")
    /\ pc' = "by_year"
    /\ UNCHANGED <<file, widget, slider_bounds, year_range,
                   all_words, common_words, error>>

\* df_filtered = df[(df['year'] >= year_range[0]) & (df['year'] <= year_range[1])]
ApplyFilter ==
    /\ pc = "filter"
    /\ df_filtered' = filter_by_year(df, year_range[1], year_range[2])
    /\ ui' = Append(ui, "showing")
    /\ pc' = "by_year"
    /\ UNCHANGED <<file, cache, df, widget, slider_bounds, year_range,
                   all_words, common_words, error>>

\* Publications by year (lines 70-77).
PublicationsByYear ==
    /\ pc = "by_year"
    /\ ui' = Append(ui, "year_counts")
    /\ pc' = "journals"
    /\ UNCHANGED <<file, cache, df, widget, slider_bounds, year_range, df_filtered,
                   all_words, common_words, error>>

\* Top journals (lines 82-89): df_filtered['journal'] raises KeyError when
\* the file has no such column.
TopJournals ==
    /\ pc = "journals"
    /\ IF "journal" \notin df_filtered.columns
       THEN /\ Raise("KeyError", 83)
            /\ UNCHANGED ui
       ELSE /\ ui' = Append(ui, "top_journals")
            /\ pc' = "source"
            /\ UNCHANGED error
    /\ UNCHANGED <<file, cache, df, widget, slider_bounds, year_range, df_filtered,
                   all_words, common_words>>

\* Papers by source (lines 94-104).
PapersBySource ==
    /\ pc = "source"
    /\ ui' = Append(ui, IF "source_x" \in df_filtered.columns
                        THEN "source_counts"
                        ELSE "Column 'source_x' not found in dataset.")
    /\ pc' = "wordcloud"
    /\ UNCHANGED <<file, cache, df, widget, slider_bounds, year_range, df_filtered,
                   all_words, common_words, error>>

\* Word cloud of titles (lines 110-116).  WordCloud.generate raises
\* ValueError ("We need at least 1 word to plot a word cloud") on a text
\* with no word in it.  The library's own tokenizer and stop-word list are
\* not modelled: every word of a title counts as a word it keeps.
WordCloudView ==
    /\ pc = "wordcloud"
    /\ IF split(join(titles_of(df_filtered.rows))) = <<>>
       THEN /\ Raise("ValueError", 112)
            /\ UNCHANGED ui
       ELSE /\ ui' = Append(ui, "wordcloud")
            /\ pc' = "top_words"
            /\ UNCHANGED error
    /\ UNCHANGED <<file, cache, df, widget, slider_bounds, year_range, df_filtered,
                   all_words, common_words>>

\* Top words in titles (lines 121-124).
TopWords ==
    /\ pc = "top_words"
    /\ LET words == title_words(df_filtered.rows)
       IN /\ all_words' = words
          /\ common_words' = most_common(Counter(words), TopN)
    /\ ui' = Append(ui, "common_words")
    /\ pc' = "sample"
    /\ UNCHANGED <<file, cache, df, widget, slider_bounds, year_range, df_filtered,
                   error>>

\* Sample of data (lines 129-130): selecting a column the table lacks raises
\* KeyError.
SampleData ==
    /\ pc = "sample"
    /\ IF {"title", "authors", "journal", "year"} \subseteq df_filtered.columns
       THEN /\ ui' = Append(ui, "sample")
            /\ pc' = "done"
            /\ UNCHANGED error
       ELSE /\ Raise("KeyError", 130)
            /\ UNCHANGED ui
    /\ UNCHANGED <<file, cache, df, widget, slider_bounds, year_range, df_filtered,
                   all_words, common_words>>

\* The user moves the slider on a page that shows it: Streamlit keeps the new
\* value in the session and runs the script again from the top, in a fresh
\* namespace.
MoveSlider(lo, hi) ==
    /\ pc \in {"done", "error"}
    /\ slider_bounds # <<>>
    /\ <<lo, hi>> # year_range
    /\ widget' = <<lo, hi>>
    /\ df' = NoTable
    /\ slider_bounds' = <<>>
    /\ year_range' = <<>>
    /\ df_filtered' = NoTable
    /\ all_words' = <<>>
    /\ common_words' = <<>>
    /\ ui' = <<>>
    /\ pc' = "load"
    /\ error' = NoError
    /\ UNCHANGED <<file, cache>>

Rerun ==
    /\ slider_bounds # <<>>
    /\ \E lo \in slider_bounds[1]..slider_bounds[2] :
          \E hi \in lo..slider_bounds[2] : MoveSlider(lo, hi)

Next ==
    \/ Load
    \/ Overview
    \/ Slider
    \/ ApplyFilter
    \/ PublicationsByYear
    \/ TopJournals
    \/ PapersBySource
    \/ WordCloudView
    \/ TopWords
    \/ SampleData
    \/ Rerun

Spec == Init /\ [][Next]_vars

----------------------------------------------------------------------------
(* Properties                                                              *)

Drawn(x) == \E i \in 1..Len(ui) : ui[i] = x

\* df = load_data(file_path) has returned in this run.
Loaded == df # NoTable

\* Line 64 has run in this run.
Filtered == Drawn("showing")

\* Line 123 has run in this run.
Tabulated == Drawn("common_words")

InRange(r) == r.year >= year_range[1] /\ r.year <= year_range[2]

\* The tables a record can be seen in.
Tables == {df, df_filtered} \cup {cache[i] : i \in 1..Len(cache)}

\* C1: every record of the loaded table, and of every filtered view of it,
\* has a title that is present and not empty and a year that is the year of
\* a date its publish_time was parsed to; the line it came from has a title
\* and a publish_time written in it.
C1_EssentialFields ==
    \A t \in Tables : \A i \in 1..Len(t.rows) :
        LET r == t.rows[i]
            src == file.lines[r.line]
        IN /\ r.title # NaN
           /\ Len(r.title) > 0
           /\ r.publish_time # NaT
           /\ r.publish_time.month \in 1..12
           /\ r.publish_time.day \in 1..31
           /\ r.year # NaN_year
           /\ r.year \in 1..9999
           /\ r.year = r.publish_time.year
           /\ src.title # <<>>
           /\ src.publish_time # <<>>
           /\ ~src.extra_fields

\* A finished run over a file in which a line was dropped for its title or
\* its date and another is on show.
C1_Witness ==
    /\ pc = "done"
    /\ df_filtered.rows # <<>>
    /\ \E i \in 1..Len(file.lines) :
          /\ ~file.lines[i].extra_fields
          /\ \/ file.lines[i].title = <<>>
             \/ to_datetime(read_cell(file.lines[i].publish_time)) = NaT

\* C2: the filtered view holds only records of the table with
\* lo <= year <= hi, lo <= hi, and holds every such record of the table
\* exactly once.
C2_FilterCorrect ==
    Filtered =>
        /\ year_range[1] <= year_range[2]
        /\ \A j \in 1..Len(df_filtered.rows) :
              /\ InRange(df_filtered.rows[j])
              /\ \E i \in 1..Len(df.rows) : df.rows[i] = df_filtered.rows[j]
        /\ \A i \in 1..Len(df.rows) :
              InRange(df.rows[i]) =>
                  Cardinality({j \in 1..Len(df_filtered.rows) :
                                  df_filtered.rows[j] = df.rows[i]}) = 1

\* A filter that kept a record and left one out.
C2_Witness ==
    /\ Filtered
    /\ \E i \in 1..Len(df.rows) : InRange(df.rows[i])
    /\ \E i \in 1..Len(df.rows) : ~InRange(df.rows[i])

\* The place of a word's first occurrence, and the number of its occurrences.
FirstAt(words, w) ==
    LET at == {i \in 1..Len(words) : words[i] = w}
    IN CHOOSE i \in at : \A j \in at : i <= j

Occurrences(words, w) == Cardinality({i \in 1..Len(words) : words[i] = w})

\* r is the ranking of the first n of the distinct words: x comes before y
\* for a larger count, or for the same count and an earlier first occurrence.
IsRanking(r, words, n) ==
    LET distinct == {words[i] : i \in 1..Len(words)}
        ranked == {r[k].word : k \in 1..Len(r)}
        occ == [w \in distinct |-> Occurrences(words, w)]
        first == [w \in distinct |-> FirstAt(words, w)]
        before(x, y) == \/ occ[x] > occ[y]
                        \/ (occ[x] = occ[y] /\ first[x] < first[y])
    IN /\ Len(r) = Min(n, Cardinality(distinct))
       /\ Len(r) <= n
       /\ ranked \subseteq distinct
       /\ Cardinality(ranked) = Len(r)
       /\ \A k \in 1..Len(r) : r[k].count = occ[r[k].word]
       /\ \A k \in 1..(Len(r) - 1) :
             /\ r[k].count >= r[k + 1].count
             /\ before(r[k].word, r[k + 1].word)
       /\ \A w \in distinct \ ranked : before(r[Len(r)].word, w)

\* The words are lower-cased and hold no whitespace.
LowerCased(words) ==
    \A i \in 1..Len(words) :
        /\ words[i] # <<>>
        /\ \A k \in 1..Len(words[i]) : words[i][k] \notin {"A", "B", " "}

\* C5: the top words are the first min(n, distinct words) of the distinct
\* lower-cased words of the titles by count descending, equal counts in the
\* order of first appearance: for the 20 the script asks for and for every
\* n from 1 to MaxN; and no title gives no word.
C5_RankingOrder ==
    /\ Tabulated =>
          /\ LowerCased(all_words)
          /\ all_words = split(lower(join(titles_of(df_filtered.rows))))
          /\ IsRanking(common_words, all_words, TopN)
          /\ \A n \in 1..MaxN :
                IsRanking(most_common(Counter(all_words), n), all_words, n)
    /\ \A n \in 1..MaxN : most_common(Counter(title_words(<<>>)), n) = <<>>

\* A ranking cut at 20 words, with two neighbours of equal count, and with a
\* word put in front of one that appeared before it.
C5_Witness ==
    /\ Tabulated
    /\ Len(common_words) = TopN
    /\ Len(Counter(all_words)) > TopN
    /\ \E k \in 1..(Len(common_words) - 1) :
          common_words[k].count = common_words[k + 1].count
    /\ \E k \in 1..(Len(common_words) - 1) :
          /\ common_words[k].count > common_words[k + 1].count
          /\ FirstAt(all_words, common_words[k].word) >
                FirstAt(all_words, common_words[k + 1].word)

\* C6: the records of the loaded table stand in the order of their lines in
\* the file, each with the title of its line, and the records of the
\* filtered view stand in the order they have in the loaded table.
C6_OrderPreserved ==
    /\ Loaded =>
          /\ \A i \in 1..Len(df.rows) :
                df.rows[i].title = file.lines[df.rows[i].line].title
          /\ \A i, j \in 1..Len(df.rows) :
                i < j => df.rows[i].line < df.rows[j].line
    /\ Filtered =>
          \A i, j \in 1..Len(df_filtered.rows) :
              i < j => \E p, q \in 1..Len(df.rows) :
                          /\ p < q
                          /\ df.rows[p] = df_filtered.rows[i]
                          /\ df.rows[q] = df_filtered.rows[j]

\* Two records, the later of the earlier year, both on show.
C6_Witness ==
    /\ Filtered
    /\ Len(df_filtered.rows) >= 2
    /\ df_filtered.rows[1].year > df_filtered.rows[2].year

\* The number of words of a text: the places where a word ends.
TokenCount(s) ==
    Cardinality({i \in 1..Len(s) : ~IsSpace(s[i]) /\ (i = Len(s) \/ IsSpace(s[i + 1]))})

\* The ranking with no n: every distinct word.
FullRanking(rows) ==
    LET words == title_words(rows) IN most_common(Counter(words), Len(words))

Counts(r) == [k \in 1..Len(r) |-> r[k].count]

\* C7: the counts of the full ranking add up to the number of words of the
\* space-joined, lower-cased titles: for the records on show, where the 20
\* top words hold every word when there are no more than 20, and for the
\* rows as read from the file, a missing title adding no word.
C7_TotalCount ==
    Tabulated =>
        LET raw == read_csv(file).rows
        IN /\ Sum(Counts(FullRanking(df_filtered.rows)))
                 = TokenCount(lower(join(titles_of(df_filtered.rows))))
           /\ Len(all_words) = TokenCount(lower(join(titles_of(df_filtered.rows))))
           /\ Len(Counter(all_words)) <= TopN => Sum(Counts(common_words)) = Len(all_words)
           /\ Sum(Counts(FullRanking(raw)))
                 = Sum([i \in 1..Len(raw) |->
                          IF raw[i].title = NaN THEN 0 ELSE TokenCount(raw[i].title)])

\* A tabulation with a word counted twice, over a file with a missing title.
C7_Witness ==
    /\ Tabulated
    /\ \E k \in 1..Len(common_words) : common_words[k].count >= 2
    /\ \E i \in 1..Len(read_csv(file).rows) : read_csv(file).rows[i].title = NaN

\* C8: the filter applied with the same bounds to the filtered view gives the
\* filtered view again.
C8_FilterIdempotent ==
    Filtered =>
        filter_by_year(df_filtered, year_range[1], year_range[2]) = df_filtered

\* A filtered view that holds a record and lacks another.
C8_Witness ==
    /\ Filtered
    /\ df_filtered.rows # <<>>
    /\ Len(df_filtered.rows) < Len(df.rows)

\* C9: once loaded the table never changes: every later run gets the same
\* table, no step of a run changes it, and at the end of every run the
\* filtered view and the ranking are those of the loaded table and the
\* selection of that run.
C9_TableImmutable ==
    [][/\ cache # <<>> => cache' = cache
       /\ df # NoTable /\ df' # NoTable => df' = df
       /\ df' # NoTable => cache' = <<df'>>
       /\ pc' = "done" =>
             /\ df_filtered' = filter_by_year(cache'[1], year_range'[1], year_range'[2])
             /\ all_words' = title_words(df_filtered'.rows)
             /\ common_words' = most_common(Counter(all_words'), TopN)]_vars

\* The end of a run after the user changed the selection, the view narrower
\* than the table.
C9_Witness ==
    /\ pc = "done"
    /\ widget # <<>>
    /\ Len(df_filtered.rows) < Len(df.rows)

\* C3: a run over a table with no record raises nothing.
C3_EmptyTableHandled ==
    Loaded /\ df.rows = <<>> => error = NoError

\* C4: no run over a readable file ends on a column that is not there.
C4_AbsentColumnTolerated ==
    file.exists => error.type # "KeyError"

\* C10: the selection the filter is given lies within the years of the table.
C10_RangeClamped ==
    year_range # <<>> =>
        /\ year_min(df) <= year_range[1]
        /\ year_range[1] <= year_range[2]
        /\ year_range[2] <= year_max(df)

====
